---- MODULE Spec2Model ----
(***************************************************************************)
(* State-machine model of the blog API of src/blog/main.py: registration,  *)
(* login, JWT issuance and verification, the auth guard and the            *)
(* ownership-checked blog handlers, over the tables declared in            *)
(* src/app/blog/schemas.py.                                                *)
(*                                                                         *)
(* Time is counted in ticks of 1/TicksPerSecond seconds since the epoch.   *)
(* A handler that main.py declares with def (not async def) runs in the    *)
(* thread pool; create_user is split at its read/write boundary so that    *)
(* two requests can interleave there.                                      *)
(***************************************************************************)
EXTENDS Integers, FiniteSets, Sequences, Bags, TLC

VARIABLES users, blogs, pending, now, req, resp, registered

vars == <<users, blogs, pending, now, req, resp, registered>>

----------------------------------------------------------------------------
(* Bounds of the model *)

MaxUsers == 2
MaxBlogs == 2
TicksPerSecond == 2
Jitter == 1
MaxMinutes == 30

(* Program constants *)

ACCESS_TOKEN_EXPIRE_MINUTES == 30
DefaultExpireMinutes == 15
SECRET_KEY == "09d25e094faa6ca2556c818166b7a9563b93f7099f6f0f4caa6cf63b88e8d3e7"
OtherKey == "attacker-key"

(* Input domains *)

Emails == {"a@x.io", "b@x.io"}
Names == {"ann"}
Passwords == {"pw1", "pw2"}
Salts == {"saltA"}
Titles == {"t1", "t2"}
Bodies == {"b1"}
NoSub == "<no sub>"

ProbeIds == 1..(MaxBlogs + 1)

Minutes(m) == m * 60 * TicksPerSecond
Quarter == Minutes(15)

(* the instants at which the clock is observed: within Jitter ticks of a  *)
(* multiple of a quarter of an hour                                        *)
Instants ==
    {t \in 0..Minutes(MaxMinutes) :
        \/ t % Quarter <= Jitter
        \/ t % Quarter >= Quarter - Jitter}

----------------------------------------------------------------------------
(* schemas *)

BlogBaseFields == {"title", "body"}
BlogFields == {"id", "title", "body", "author_id"}
UserFields == {"id", "name", "email", "password"}
ShowUserFields == {"name", "email"}
UserBase == [name : Names, email : Emails, password : Passwords]
BlogBase == [title : Titles, body : Bodies]

(* a record restricted to the fields of a response model *)
Project(obj, fields) == [f \in (DOMAIN obj) \cap fields |-> obj[f]]

(* FastAPI validates what the handler returns against the route's response *)
(* model: a value that lacks a required field is a                         *)
(* ResponseValidationError, answered 500 whatever status the handler set.  *)
Respond(status, content, required) ==
    IF required \subseteq DOMAIN content
    THEN [status |-> status, body |-> Project(content, required)]
    ELSE [status |-> 500, body |-> [detail |-> "Internal Server Error"]]

(* a route without response model (or whose annotation admits any dict):   *)
(* the content goes out as returned                                        *)
Plain(status, content) == [status |-> status, body |-> content]

NotExist(kind, id) == [detail |-> kind \o " with id = {id} does not exist", id |-> id]

----------------------------------------------------------------------------
(* Password hasher *)

(* pwd_context.hash: a bcrypt string that embeds the salt it drew *)
get_password_hash(password, salt) == "$2b$12$" \o salt \o "$" \o password

(* pwd_context.verify: hash the plaintext again with the salt embedded in *)
(* the stored string and compare                                         *)
verify_password(plain_password, hashed_password) ==
    \E salt \in Salts : hashed_password = get_password_hash(plain_password, salt)

----------------------------------------------------------------------------
(* Token service *)

None == {}
Some(x) == {x}
The(opt) == CHOOSE x \in opt : TRUE

(* timedelta.__bool__: a timedelta of zero is falsy *)
Truthy(expires_delta) == expires_delta # None /\ The(expires_delta) # 0

(* jwt.encode stores a datetime exp as whole seconds since the epoch *)
IntDate(t) == t \div TicksPerSecond

NoToken == [kind |-> "none"]
Garbage == [kind |-> "garbage"]
Jwt(key, sub, exp) == [kind |-> "jwt", key |-> key, sub |-> sub, exp |-> exp]

(* create_access_token with the login lifetime as its default *)
create_access_token_default30(sub, expires_delta, utcnow) ==
    LET expire == IF Truthy(expires_delta)
                  THEN utcnow + The(expires_delta)
                  ELSE utcnow + Minutes(ACCESS_TOKEN_EXPIRE_MINUTES)
    IN  Jwt(SECRET_KEY, sub, IntDate(expire))

create_access_token(sub, expires_delta, utcnow) ==
    LET expire == IF Truthy(expires_delta)
                  THEN utcnow + The(expires_delta)
                  ELSE utcnow + Minutes(DefaultExpireMinutes)
    IN  Jwt(SECRET_KEY, sub, IntDate(expire))

(* jwt.decode with verify_exp switched off *)
jwt_decode_no_exp(token, t) ==
    IF token.kind # "jwt" THEN [ok |-> FALSE, sub |-> NoSub]
    ELSE IF token.key # SECRET_KEY THEN [ok |-> FALSE, sub |-> NoSub]
    ELSE [ok |-> TRUE, sub |-> token.sub]

(* jwt.decode: the payload, or InvalidTokenError *)
jwt_decode(token, t) ==
    IF token.kind # "jwt" THEN [ok |-> FALSE, sub |-> NoSub]
    ELSE IF token.key # SECRET_KEY THEN [ok |-> FALSE, sub |-> NoSub]
    ELSE IF token.exp * TicksPerSecond <= t THEN [ok |-> FALSE, sub |-> NoSub]
    ELSE [ok |-> TRUE, sub |-> token.sub]

----------------------------------------------------------------------------
(* Resource store *)

Max(S) == CHOOSE x \in S : \A y \in S : y <= x

(* the integer primary key the store assigns to a new row *)
NextId(table) == Max(DOMAIN table \cup {0}) + 1

(* a lookup that finds no row *)
FirstByEmailNone(email) == {0}

(* query(User).filter(User.email == email).first(): a matching row, or 0  *)
(* for None; which of several matching rows comes first is the store's     *)
(* choice                                                                  *)
FirstByEmail(email) ==
    LET m == {id \in DOMAIN users : users[id].email = email}
    IN  IF m = {} THEN {0} ELSE m

(* the auth guard: the id of the authenticated user, or 0 for the 401 *)
get_current_user(token) ==
    LET payload == jwt_decode(token, now)
    IN  IF ~payload.ok \/ payload.sub = NoSub
        THEN {0}
        ELSE FirstByEmail(payload.sub)

(* an ownership check that lets everyone through *)
ForbiddenNever(blog, current_user) == FALSE

Forbidden(blog, current_user) == blog.author_id # current_user

Unauthorized == Plain(401, [detail |-> "Could not validate credentials"])

----------------------------------------------------------------------------
NoReq == [op |-> "none"]
NoResp == [status |-> 0, body |-> [detail |-> "none"]]

Init ==
    /\ users = << >>
    /\ blogs = << >>
    /\ pending = EmptyBag
    /\ now = 0
    /\ req = NoReq
    /\ resp = NoResp
    /\ registered = {}

----------------------------------------------------------------------------
(* POST /user, first half: the existence check *)
create_user_check ==
    \E user \in UserBase :
        \E existing_user \in FirstByEmail(user.email) :
            /\ req' = [op |-> "create_user", step |-> "check", user |-> user]
            /\ IF existing_user # 0
               THEN /\ resp' = Plain(409, [detail |-> "Email {user.email} is already existed",
                                           email |-> user.email])
                    /\ UNCHANGED pending
               ELSE /\ Cardinality(DOMAIN users) + BagCardinality(pending) < MaxUsers
                    /\ pending' = pending (+) SetToBag({user})
                    /\ resp' = NoResp
            /\ UNCHANGED <<users, blogs, now, registered>>

(* POST /user, second half: hash, insert, commit, refresh, return *)
create_user_insert ==
    \E user \in BagToSet(pending), salt \in Salts :
        LET id == NextId(users)
            db_user == [id |-> id, name |-> user.name, email |-> user.email,
                        password |-> get_password_hash(user.password, salt)]
        IN  /\ pending' = pending (-) SetToBag({user})
            /\ users' = users @@ (id :> Project(db_user, UserFields \ {"id"}))
            /\ registered' = registered \cup
                    {[id |-> id, email |-> user.email, password |-> user.password]}
            /\ req' = [op |-> "create_user", step |-> "insert", user |-> user]
            /\ resp' = Respond(200, db_user, UserFields)
            /\ UNCHANGED <<blogs, now>>

(* GET /user/{id}, response_model = ShowUser *)
get_user_by_id ==
    \E id \in ProbeIds :
        /\ req' = [op |-> "get_user_by_id", id |-> id]
        /\ resp' = IF id \notin DOMAIN users
                   THEN Respond(404, NotExist("User", id), ShowUserFields)
                   ELSE Respond(200, users[id] @@ [id |-> id], ShowUserFields)
        /\ UNCHANGED <<users, blogs, pending, now, registered>>

(* POST /login *)
login ==
    \E username \in Emails, password \in Passwords :
        \E user \in FirstByEmail(username) :
            /\ req' = [op |-> "login", username |-> username, password |-> password,
                       at |-> now]
            /\ resp' = IF user = 0 \/ ~verify_password(password, users[user].password)
                       THEN Plain(401, [detail |-> "Incorrect username or password"])
                       ELSE Plain(200,
                                [access_token |->
                                    create_access_token(users[user].email,
                                        Some(Minutes(ACCESS_TOKEN_EXPIRE_MINUTES)), now),
                                 token_type |-> "bearer"])
            /\ UNCHANGED <<users, blogs, pending, now, registered>>

(* GET /blog/{id} *)
get_blog_by_id ==
    \E id \in ProbeIds :
        /\ req' = [op |-> "get_blog_by_id", id |-> id]
        /\ resp' = IF id \notin DOMAIN blogs
                   THEN Plain(404, NotExist("Blog", id))
                   ELSE Plain(200, blogs[id] @@ [id |-> id])
        /\ UNCHANGED <<users, blogs, pending, now, registered>>

(* the bearer tokens a request may carry *)
TokenExps == {IntDate(Minutes(k * ACCESS_TOKEN_EXPIRE_MINUTES)) : k \in 1..2}
RequestTokens ==
    {NoToken, Garbage, Jwt(SECRET_KEY, NoSub, Max(TokenExps))}
        \cup {Jwt(OtherKey, CHOOSE e \in Emails : TRUE, Max(TokenExps))}
        \cup {Jwt(SECRET_KEY, e, x) : e \in Emails, x \in TokenExps}

(* a blog stored without its author *)
NewBlogNoAuthor(blog, current_user) ==
    [title |-> blog.title, body |-> blog.body, author_id |-> 0]

(* Blog.model_validate(blog) with author_id set to the authenticated user *)
NewBlog(blog, current_user) ==
    [title |-> blog.title, body |-> blog.body, author_id |-> current_user]

(* POST /blog, response_model = Blog *)
create_blog ==
    \E blog \in BlogBase, token \in RequestTokens :
        \E current_user \in get_current_user(token) :
            /\ req' = [op |-> "create_blog", blog |-> blog, token |-> token,
                       current_user |-> current_user]
            /\ IF current_user = 0
               THEN /\ resp' = Unauthorized
                    /\ UNCHANGED blogs
               ELSE LET id == NextId(blogs)
                        db_blog == NewBlog(blog, current_user)
                    IN  /\ id <= MaxBlogs
                        /\ blogs' = blogs @@ (id :> db_blog)
                        /\ resp' = Respond(200, db_blog @@ [id |-> id], BlogFields)
            /\ UNCHANGED <<users, pending, now, registered>>

(* DELETE /blog/{id} *)
delete_blog ==
    \E id \in ProbeIds, token \in RequestTokens :
        \E current_user \in get_current_user(token) :
            /\ req' = [op |-> "delete_blog", id |-> id, token |-> token,
                       current_user |-> current_user]
            /\ IF current_user = 0
               THEN resp' = Unauthorized /\ UNCHANGED blogs
               ELSE IF id \notin DOMAIN blogs
               THEN resp' = Plain(404, NotExist("Blog", id)) /\ UNCHANGED blogs
               ELSE IF Forbidden(blogs[id], current_user)
               THEN /\ resp' = Plain(403, [detail |-> "Not authorized to delete this blog"])
                    /\ UNCHANGED blogs
               ELSE /\ blogs' = [i \in DOMAIN blogs \ {id} |-> blogs[i]]
                    /\ resp' = Plain(200, [ok |-> TRUE])
            /\ UNCHANGED <<users, pending, now, registered>>

(* blog_param.model_dump(exclude_unset=True) followed by the setattr loop *)
ApplyPatch(blog, blog_param) ==
    [f \in DOMAIN blog |->
        IF f \in DOMAIN blog_param \cap BlogBaseFields THEN blog_param[f] ELSE blog[f]]

(* PATCH /blog/{id} *)
update_blog ==
    \E id \in ProbeIds, blog_param \in BlogBase, token \in RequestTokens :
        \E current_user \in get_current_user(token) :
            /\ req' = [op |-> "update_blog", id |-> id, blog |-> blog_param,
                       token |-> token, current_user |-> current_user]
            /\ IF current_user = 0
               THEN resp' = Unauthorized /\ UNCHANGED blogs
               ELSE IF id \notin DOMAIN blogs
               THEN resp' = Plain(404, NotExist("Blog", id)) /\ UNCHANGED blogs
               ELSE IF Forbidden(blogs[id], current_user)
               THEN /\ resp' = Plain(403, [detail |-> "Not authorized to update this blog"])
                    /\ UNCHANGED blogs
               ELSE /\ blogs' = [blogs EXCEPT ![id] = ApplyPatch(@, blog_param)]
                    /\ resp' = Plain(200, blogs'[id] @@ [id |-> id])
            /\ UNCHANGED <<users, pending, now, registered>>

(* the time-to-live arguments create_access_token is called with *)
Deltas ==
    {None} \cup {Some(d) : d \in {0, 1, TicksPerSecond, Minutes(DefaultExpireMinutes),
                                  Minutes(ACCESS_TOKEN_EXPIRE_MINUTES)}}

(* a call of create_access_token *)
IssueToken ==
    \E sub \in Emails, expires_delta \in Deltas :
        /\ req' = [op |-> "create_access_token", sub |-> sub,
                   expires_delta |-> expires_delta, at |-> now]
        /\ resp' = Plain(200, [access_token |-> create_access_token(sub, expires_delta, now)])
        /\ UNCHANGED <<users, blogs, pending, now, registered>>

(* the clock moves on by one token lifetime *)
Tick ==
    /\ now + Minutes(ACCESS_TOKEN_EXPIRE_MINUTES) <= Minutes(MaxMinutes)
    /\ now' = now + Minutes(ACCESS_TOKEN_EXPIRE_MINUTES)
    /\ UNCHANGED <<users, blogs, pending, req, resp, registered>>

(* the clock moves on to a later instant *)
TickFine ==
    \E t \in Instants :
        /\ t > now
        /\ now' = t
        /\ UNCHANGED <<users, blogs, pending, req, resp, registered>>

Next ==
    \/ create_user_check
    \/ create_user_insert
    \/ get_user_by_id
    \/ login
    \/ get_blog_by_id
    \/ create_blog
    \/ delete_blog
    \/ update_blog
    \/ Tick

Spec == Init /\ [][Next]_vars

(* registration, login and token issuance alone *)
NextUsers ==
    \/ create_user_check
    \/ create_user_insert
    \/ get_user_by_id
    \/ login
    \/ IssueToken
    \/ Tick

SpecUsers == Init /\ [][NextUsers]_vars

(* the token service under a fine-grained clock *)
NextToken ==
    \/ IssueToken
    \/ TickFine

SpecToken == Init /\ [][NextToken]_vars

----------------------------------------------------------------------------
(* Properties *)

Protected == {"create_blog", "update_blog", "delete_blog"}

(* the step handles a request of the given operations *)
Handles(ops) == now' = now /\ req'.op \in ops

C2_DuplicateEmailConflict ==
    [][ ( /\ Handles({"create_user"})
          /\ req'.step = "check"
          /\ \E id \in DOMAIN users : users[id].email = req'.user.email )
        => /\ resp'.status = 409
           /\ users' = users
           /\ pending' = pending
      ]_vars

C2_Witness ==
    /\ req.op = "create_user"
    /\ req.step = "check"
    /\ resp.status = 409
    /\ \E id \in DOMAIN users :
          /\ users[id].email = req.user.email
          /\ ~verify_password(req.user.password, users[id].password)

(* C3: no two stored Users have the same email, also when two create_user  *)
(* requests for one email interleave their check and their insert.         *)
C3_EmailUnique ==
    \A i, j \in DOMAIN users : users[i].email = users[j].email => i = j

(* C4: a login with an email and password registered by a successful       *)
(* create_user succeeds, and its token verifies to that email and resolves *)
(* to that registered User.                                                *)
C4_LoginRoundTrip ==
    \A r \in registered :
        ( /\ req.op = "login"
          /\ req.at = now
          /\ req.username = r.email
          /\ req.password = r.password )
        => /\ resp.status = 200
           /\ jwt_decode(resp.body.access_token, now) = [ok |-> TRUE, sub |-> r.email]
           /\ get_current_user(resp.body.access_token) = {r.id}

(* C5: a token issued with a time-to-live verifies to its subject at every *)
(* time before issuance + ttl and fails verification at every time at or   *)
(* after issuance + ttl.                                                   *)
C5_TokenLifetime ==
    (req.op = "create_access_token" /\ req.expires_delta # None)
        => IF now < req.at + The(req.expires_delta)
           THEN jwt_decode(resp.body.access_token, now) = [ok |-> TRUE, sub |-> req.sub]
           ELSE ~jwt_decode(resp.body.access_token, now).ok

(* C6, as stated: issuance sets expires_at = now + ttl, the default ttl is *)
(* 30 minutes, the lifetime of the token login issues.                     *)
C6_Original ==
    /\ req.op = "create_access_token"
        => resp.body.access_token.exp * TicksPerSecond =
              req.at + (IF req.expires_delta = None
                        THEN Minutes(ACCESS_TOKEN_EXPIRE_MINUTES)
                        ELSE The(req.expires_delta))
    /\ (req.op = "login" /\ resp.status = 200)
        => resp.body.access_token.exp * TicksPerSecond =
              req.at + Minutes(ACCESS_TOKEN_EXPIRE_MINUTES)

(* the whole second in which the instant t falls *)
WholeSecond(exp, t) == exp * TicksPerSecond <= t /\ t < (exp + 1) * TicksPerSecond

(* C6, amended: issuance sets expires_at to the whole second of now + ttl  *)
(* for a ttl other than zero; a call with no ttl, or with a ttl of zero,   *)
(* gets 15 minutes; login asks for 30 minutes.                             *)
C6_Expiry ==
    /\ req.op = "create_access_token"
        => WholeSecond(resp.body.access_token.exp,
              req.at + (IF req.expires_delta \in {None, Some(0)}
                        THEN Minutes(15)
                        ELSE The(req.expires_delta)))
    /\ (req.op = "login" /\ resp.status = 200)
        => WholeSecond(resp.body.access_token.exp, req.at + Minutes(30))

C6_Witness ==
    /\ req.op = "create_access_token"
    /\ req.expires_delta = None
    /\ req.at > 0
    /\ resp.body.access_token.exp * TicksPerSecond = req.at + Minutes(15)

(* what makes the auth guard reject a token *)
BadToken(token) ==
    \/ token.kind # "jwt"
    \/ token.key # SECRET_KEY
    \/ token.exp * TicksPerSecond <= now
    \/ token.sub = NoSub
    \/ \A id \in DOMAIN users : users[id].email # token.sub

(* C7: a request to a protected route with no token, a malformed or badly   *)
(* signed token, an expired token, a token without subject or a token whose *)
(* subject is no stored User's email is answered 401 and leaves Blogs and   *)
(* Users as they were, whether or not the target blog exists.               *)
C7_Unauthorized ==
    [][ (Handles(Protected) /\ BadToken(req'.token))
        => /\ resp'.status = 401
           /\ blogs' = blogs
           /\ users' = users
      ]_vars

C7_Witness ==
    /\ req.op = "delete_blog"
    /\ resp.status = 401
    /\ req.id \notin DOMAIN blogs
    /\ req.token.kind = "jwt"
    /\ req.token.key = SECRET_KEY
    /\ req.token.exp * TicksPerSecond <= now
    /\ \E id \in DOMAIN users : users[id].email = req.token.sub

(* C8: for an id no stored entity has, get_blog_by_id, get_user_by_id and, *)
(* for an authenticated user, update_blog and delete_blog answer 404 with  *)
(* a detail that names the id, and leave the store as it was.              *)
C8_NotFound ==
    [][ ( \/ Handles({"get_blog_by_id"}) /\ req'.id \notin DOMAIN blogs
          \/ Handles({"get_user_by_id"}) /\ req'.id \notin DOMAIN users
          \/ /\ Handles({"update_blog", "delete_blog"})
             /\ req'.current_user # 0
             /\ req'.id \notin DOMAIN blogs )
        => /\ resp'.status = 404
           /\ resp'.body.id = req'.id
           /\ blogs' = blogs
           /\ users' = users
      ]_vars

(* C9: the stored password never equals the submitted plaintext, and no    *)
(* response of create_user or get_user_by_id contains the password field.  *)
C9_PasswordHidden ==
    /\ \A r \in registered : users[r.id].password # r.password
    /\ ( /\ req.op \in {"create_user", "get_user_by_id"}
         /\ resp.status = 200 )
        => "password" \notin DOMAIN resp.body

====
